---- MODULE Spec2Model ----
(***************************************************************************)
(* Wayland bootstrap of swww-daemon (daemon/src/wayland/globals.rs):       *)
(* the one-time initialisation `init`, the `Initializer` event handlers    *)
(* and the process-wide statics they write.                                *)
(*                                                                         *)
(* The compositor is the environment: every blocking `WireMsg::recv()`     *)
(* returns a message chosen from the small sets below.  Advertised names   *)
(* are positive: the code keeps 0 for "not found" and converts the         *)
(* fractional-scale name to NonZeroU32.  The root object's "error" event   *)
(* is decoded outside globals.rs and is not modelled.                      *)
(***************************************************************************)
EXTENDS Integers, Sequences, FiniteSets, TLC

(* ---------------- bounds of the model ---------------- *)
MaxName == 2          \* advertised names are 1..MaxName
MaxVersion == 4       \* advertised versions go up to MaxVersion
MaxOutputs == 2       \* the compositor announces at most this many wl_output globals
MaxGlobals == 6       \* the compositor announces at most this many globals
MaxObjectId == 8      \* sender ids and deleted ids are 1..MaxObjectId
MaxCalls == 2         \* number of calls of init
MaxFormatEvents == 3  \* length of the recorded sequences of "format" events
MaxThreads == 2       \* threads calling the object registry
MaxObjects == 2       \* ids the ObjectManager can hand out
MaxLen == 3           \* the length header of a message is 0..MaxLen

(* ---------------- program constants ---------------- *)
WL_DISPLAY == 1
WL_REGISTRY == 2
WL_COMPOSITOR == 3
WL_SHM == 4
WP_VIEWPORTER == 5
ZWLR_LAYER_SHELL_V1 == 6

REQUIRED_GLOBALS == <<"wl_compositor", "wl_shm", "wp_viewporter", "zwlr_layer_shell_v1">>
VERSIONS == <<4, 1, 1, 3>>
IDS == <<WL_COMPOSITOR, WL_SHM, WP_VIEWPORTER, ZWLR_LAYER_SHELL_V1>>

FRACTIONAL_SCALE_INTERFACE == "wp_fractional_scale_manager_v1"
WL_OUTPUT_INTERFACE == "wl_output"

\* enum PixelFormat
PixelFormat == {"Bgr", "Rgb", "Xbgr", "Xrgb"}
\* Option::None
None == "None"
\* Option::None of Initializer.fractional_scale, whose Some((id, name)) is <<id, name>>
NoFractionalScale == <<>>

\* wl_shm format codes; ARGB8888 stands for every code the handler ignores
FormatCodes == {"XRGB8888", "XBGR8888", "RGB888", "BGR888", "ARGB8888"}

(* ---------------- what the compositor may send ---------------- *)
Names == 1..MaxName
\* the versions announced for an interface start one below its floor
VersionsFrom(floor) == {v \in 0..MaxVersion : v >= floor - 1}
ObjectIds == 1..MaxObjectId
Interfaces == {REQUIRED_GLOBALS[i] : i \in 1..4}
                 \cup {FRACTIONAL_SCALE_INTERFACE, WL_OUTPUT_INTERFACE, "wl_seat"}
VersionsOf(interface) ==
    CASE interface = WL_OUTPUT_INTERFACE -> VersionsFrom(4)
      [] \E i \in 1..4 : REQUIRED_GLOBALS[i] = interface ->
            VersionsFrom(VERSIONS[CHOOSE i \in 1..4 : REQUIRED_GLOBALS[i] = interface])
      [] OTHER -> {1}

VARIABLES
    pc,                       \* position of the process inside init
    calls,                    \* calls of init made so far
    WAYLAND_FD,               \* static: "zeroed" or "connected"
    FRACTIONAL_SCALE_SUPPORT, \* static
    OBJECT_MANAGER,           \* static: "uninit" or "new"
    PIXEL_FORMAT,             \* static
    INITIALIZED,              \* static AtomicBool
    pixel_format_arg,         \* init's parameter
    global_names,             \* Initializer.global_names
    output_names,             \* Initializer.output_names
    fractional_scale,         \* Initializer.fractional_scale: <<>> or <<id, name>>
    forced_shm_format,        \* Initializer.forced_shm_format
    should_exit,              \* Initializer.should_exit
    bind_i,                   \* index of the bind loop of init
    callback_id,              \* init's local callback_id, 0 before it is computed
    sent,                     \* requests written to the socket, in order
    panic_msg,                \* the panic that ended the process, if any
    announced_outputs,        \* history: every wl_output global announced, in order
    n_globals,                \* history: number of "global" events received
    below_floor,              \* history: the mandatory interface just announced below its
                              \*          floor, "" when the last event was not one
    deleted_id,               \* history: the id of the "delete_id" event just handled, else 0
    format_events,            \* history: the "format" events received (SpecFormat only)
    stray_sender,             \* history: the sender of the message just received when it
                              \*          is none of the senders of the running phase, else 0
    objects,                  \* the ObjectManager inside OBJECT_MANAGER: id -> type or Free
    guards,                   \* threads holding a MutexGuard of OBJECT_MANAGER
    poisoned,                 \* the mutex is poisoned: a thread panicked holding the guard
    tpc,                      \* per thread: "ready", inside "create", "get", "remove", or
                              \*             "panicked"
    targ,                     \* per thread: the argument of the running call, else 0
    tid,                      \* per thread: the id create picked, then returned, else 0
    tret,                     \* per thread: the type read under the lock, then returned by
                              \*             get, "" before
    live,                     \* history: id -> type passed to the create that returned it,
                              \*          Free once a remove of it returned
    removed,                  \* history: the ids a remove has returned for
    rs_pc,                    \* read_socket: "idle", in the "header" loop, at the "payload"
                              \*              read, or "returned"
    tries,                    \* read_socket's local tries
    len,                      \* read_socket's local len, 0 before the header is read
    buf,                      \* read_socket's local buf after the payload read
    result,                   \* what read_socket returned: "none", "ok", "err_length",
                              \*                            "err_request"
    reads,                    \* history: calls of read_exact for the header
    last_err                  \* history: the error of the last header read, "" for Ok

vars == <<pc, calls, WAYLAND_FD, FRACTIONAL_SCALE_SUPPORT, OBJECT_MANAGER, PIXEL_FORMAT,
          INITIALIZED, pixel_format_arg, global_names, output_names, fractional_scale,
          forced_shm_format, should_exit, bind_i, callback_id, sent, panic_msg,
          announced_outputs, n_globals, below_floor, deleted_id, format_events,
          stray_sender, objects, guards, poisoned, tpc, targ, tid, tret, live,
          removed, rs_pc, tries, len, buf, result, reads, last_err>>

statics == <<WAYLAND_FD, FRACTIONAL_SCALE_SUPPORT, OBJECT_MANAGER, PIXEL_FORMAT, INITIALIZED>>
initializer == <<global_names, output_names, fractional_scale, forced_shm_format, should_exit>>
locals == <<pixel_format_arg, bind_i, callback_id>>
history == <<announced_outputs, n_globals>>
events == <<below_floor, deleted_id, format_events>>
registry == <<objects, guards, poisoned, tpc, targ, tid, tret, live, removed>>
ipc == <<rs_pc, tries, len, buf, result, reads, last_err>>
bootstrap == <<pc, calls, statics, initializer, locals, sent, panic_msg, history, events,
               stray_sender>>

(* ---------------- requests ---------------- *)
GetRegistryReq == [req |-> "get_registry", name |-> 0, id |-> WL_REGISTRY, interface |-> "", version |-> 0]
SyncReq(id) == [req |-> "sync", name |-> 0, id |-> id, interface |-> "", version |-> 0]
BindReq(name, id, interface, version) ==
    [req |-> "bind", name |-> name, id |-> id, interface |-> interface, version |-> version]

(* ---------------- panics ---------------- *)
NoPanic == [kind |-> "none", interface |-> ""]
Panic(kind, interface) == [kind |-> kind, interface |-> interface]

(* ---------------- Initializer ---------------- *)
\* Initializer::new
InitializerNew(cli_format) ==
    [global_names |-> <<0, 0, 0, 0>>,
     output_names |-> <<>>,
     fractional_scale |-> NoFractionalScale,
     forced_shm_format |-> (cli_format # None),
     should_exit |-> FALSE]

\* mutant: the callback id ignores the fractional-scale descriptor
CallbackIdAlways7(fs) == 7

\* Initializer::callback_id
CallbackId(fs) == IF fs # NoFractionalScale THEN 8 ELSE 7

\* Initializer::delete_id: TRUE when should_exit is set, FALSE when it panics
DeleteIdExits(fs, id) ==
    \/ id = 3
    \/ fs = NoFractionalScale /\ id = 7
    \/ fs # NoFractionalScale /\ id = 8

\* index of interface in REQUIRED_GLOBALS, 0 when it is not one of them
RequiredIndex(interface) ==
    IF \E i \in 1..4 : REQUIRED_GLOBALS[i] = interface
    THEN CHOOSE i \in 1..4 : REQUIRED_GLOBALS[i] = interface
    ELSE 0

\* mutant: names the last missing interface
LastMissing(names) ==
    IF \E i \in 1..4 : names[i] = 0
    THEN REQUIRED_GLOBALS[CHOOSE i \in 1..4 : names[i] = 0 /\ \A j \in (i + 1)..4 : names[j] # 0]
    ELSE None

\* first interface of REQUIRED_GLOBALS whose name is 0, None when there is none
FirstMissing(names) ==
    IF \E i \in 1..4 : names[i] = 0
    THEN REQUIRED_GLOBALS[CHOOSE i \in 1..4 : names[i] = 0 /\ \A j \in 1..(i - 1) : names[j] # 0]
    ELSE None

\* mutant: an XBGR8888 event replaces every decision but Bgr
FormatXbgrOverRgb(forced, current, format) ==
    IF forced THEN current
    ELSE CASE format = "XBGR8888" /\ current # "Bgr" -> "Xbgr"
           [] format = "RGB888" /\ current # "Bgr" -> "Rgb"
           [] format = "BGR888" -> "Bgr"
           [] OTHER -> current

\* mutant: an RGB888 event replaces every decision
FormatRgbOverBgr(forced, current, format) ==
    IF forced THEN current
    ELSE CASE format = "XBGR8888" /\ current = "Xrgb" -> "Xbgr"
           [] format = "RGB888" -> "Rgb"
           [] format = "BGR888" -> "Bgr"
           [] OTHER -> current

\* mutant: RGB888 is only taken while the decision is still the default
FormatRgbOnlyFromDefault(forced, current, format) ==
    CASE format = "XRGB8888" -> current
      [] format = "XBGR8888" -> IF ~forced /\ current # "Bgr" THEN "Xbgr" ELSE current
      [] format = "RGB888"   -> IF ~forced /\ current = "Xrgb" THEN "Rgb" ELSE current
      [] format = "BGR888"   -> IF ~forced THEN "Bgr" ELSE current
      [] OTHER               -> current

\* mutant: BGR888 overrides a forced format
FormatBgrIgnoresForced(forced, current, format) ==
    CASE format = "XRGB8888" -> current
      [] format = "XBGR8888" -> IF ~forced /\ current = "Xrgb" THEN "Xbgr" ELSE current
      [] format = "RGB888"   -> IF ~forced /\ current # "Bgr" THEN "Rgb" ELSE current
      [] format = "BGR888"   -> "Bgr"
      [] OTHER               -> current

\* Initializer::format: the PIXEL_FORMAT after the event
Format(forced, current, format) ==
    CASE format = "XRGB8888" -> current
      [] format = "XBGR8888" -> IF ~forced /\ current = "Xrgb" THEN "Xbgr" ELSE current
      [] format = "RGB888"   -> IF ~forced /\ current # "Bgr" THEN "Rgb" ELSE current
      [] format = "BGR888"   -> IF ~forced THEN "Bgr" ELSE current
      [] OTHER               -> current

(* ---------------- state after process start ---------------- *)
\* ---- the object registry: ObjectManager and the threads that call it ----

Threads == 1..MaxThreads

\* ids 3..6 are bound by init, 7 and 8 go to the callbacks and the fractional scale
\* manager; the ObjectManager hands out the ids above them
DynamicIds == (ZWLR_LAYER_SHELL_V1 + 3)..(ZWLR_LAYER_SHELL_V1 + 2 + MaxObjects)

\* WlDynObj: the type tags of dynamically created objects
WlDynObj == {"Output", "Buffer"}

Free == "free"

\* ObjectManager::new
ObjectManagerNew == [id \in DynamicIds |-> Free]

\* the id ObjectManager::create picks: the lowest one that is free
ObjectManagerNextId(objs) ==
    CHOOSE id \in DynamicIds :
        objs[id] = Free /\ \A other \in DynamicIds : objs[other] = Free => id <= other

\* ObjectManager::create
ObjectManagerCreate(objs, id, type) == [objs EXCEPT ![id] = type]

\* ObjectManager::get; Free stands for the failed lookup
ObjectManagerGet(objs, id) == objs[id]

\* mutant: remove leaves the entry bound
ObjectManagerRemoveKeeps(objs, id) == objs

\* ObjectManager::remove
ObjectManagerRemove(objs, id) == [objs EXCEPT ![id] = Free]

\* mutant: lock() never waits
CanLockAlways == TRUE

\* Mutex::lock returns once no other guard is alive
CanLock == guards = {}

\* ---- read_socket (ipc.rs) ----

\* the retries read_socket allows (ipc.rs line 305)
MaxTries == 5

Bytes == {0, 1}

\* mutant: one more retry
MayRetryOnceMore(kind, t) == kind = "WouldBlock" /\ t <= MaxTries

\* the test of ipc.rs line 305
MayRetry(kind, t) == kind = "WouldBlock" /\ t < MaxTries

\* read_socket has not been called
ReadSocketIdle ==
    /\ rs_pc = "idle"
    /\ tries = 0
    /\ len = 0
    /\ buf = <<>>
    /\ result = "none"
    /\ reads = 0
    /\ last_err = ""

RegistryNew ==
    /\ objects = ObjectManagerNew
    /\ guards = {}
    /\ poisoned = FALSE
    /\ tpc = [t \in Threads |-> "ready"]
    /\ targ = [t \in Threads |-> 0]
    /\ tid = [t \in Threads |-> 0]
    /\ tret = [t \in Threads |-> ""]
    /\ live = [id \in DynamicIds |-> Free]
    /\ removed = {}

Init ==
    /\ RegistryNew
    /\ ReadSocketIdle
    /\ pc = "idle"
    /\ calls = 0
    /\ WAYLAND_FD = "zeroed"
    /\ FRACTIONAL_SCALE_SUPPORT = FALSE
    /\ OBJECT_MANAGER = "uninit"
    /\ PIXEL_FORMAT = "Xrgb"
    /\ INITIALIZED = FALSE
    /\ pixel_format_arg = None
    /\ global_names = <<0, 0, 0, 0>>
    /\ output_names = <<>>
    /\ fractional_scale = NoFractionalScale
    /\ forced_shm_format = FALSE
    /\ should_exit = FALSE
    /\ bind_i = 0
    /\ callback_id = 0
    /\ sent = <<>>
    /\ panic_msg = NoPanic
    /\ announced_outputs = <<>>
    /\ n_globals = 0
    /\ below_floor = ""
    /\ deleted_id = 0
    /\ format_events = <<>>
    /\ stray_sender = 0

(* ---------------- init, up to the first receive loop ---------------- *)
\* mutant: the flag is set without creating the object registry
PublishWithoutRegistry(format) ==
    [WAYLAND_FD |-> "connected",
     OBJECT_MANAGER |-> OBJECT_MANAGER,
     PIXEL_FORMAT |-> IF format # None THEN format ELSE PIXEL_FORMAT,
     INITIALIZED |-> TRUE]

\* the statics written by lines 100-108
Publish(format) ==
    [WAYLAND_FD |-> "connected",
     OBJECT_MANAGER |-> "new",
     PIXEL_FORMAT |-> IF format # None THEN format ELSE PIXEL_FORMAT,
     INITIALIZED |-> TRUE]

SetInitializer(i) ==
    /\ global_names' = i.global_names
    /\ output_names' = i.output_names
    /\ fractional_scale' = i.fractional_scale
    /\ forced_shm_format' = i.forced_shm_format
    /\ should_exit' = i.should_exit

\* a panic unwinds init: its locals and the Initializer are dropped, the statics
\* and what was written to the socket stay as they are
Die(kind, interface) ==
    /\ pc' = "panicked"
    /\ panic_msg' = Panic(kind, interface)
    /\ SetInitializer(InitializerNew(None))
    /\ pixel_format_arg' = None
    /\ bind_i' = 0
    /\ callback_id' = 0
    /\ announced_outputs' = <<>>
    /\ n_globals' = 0

\* a call of init starts with fresh locals and a fresh Initializer (line 95)
EnterInit(format) ==
    /\ pixel_format_arg' = format
    /\ SetInitializer(InitializerNew(format))
    /\ bind_i' = 0
    /\ callback_id' = 0
    /\ announced_outputs' = <<>>
    /\ n_globals' = 0
    /\ below_floor' = ""
    /\ deleted_id' = 0
    /\ stray_sender' = 0
    /\ UNCHANGED format_events
    /\ calls' = calls + 1

\* mutant: init never takes the early return
NeverInitialized == FALSE

\* the test of line 96
AlreadyInitialized == INITIALIZED

\* init called while INITIALIZED: returns the fresh Initializer at once (lines 96-98)
InitAgain ==
    /\ pc \in {"idle", "returned"}
    /\ calls < MaxCalls
    /\ AlreadyInitialized
    /\ \E format \in PixelFormat \cup {None} : EnterInit(format)
    /\ pc' = "returned"
    /\ UNCHANGED <<statics, sent, panic_msg>>
    /\ UNCHANGED <<registry, ipc>>

\* init called while not INITIALIZED, connect() succeeds (lines 100-108)
InitFirst ==
    /\ pc \in {"idle", "returned"}
    /\ calls < MaxCalls
    /\ ~AlreadyInitialized
    /\ \E format \in PixelFormat \cup {None} :
          /\ EnterInit(format)
          /\ LET p == Publish(format) IN
                /\ WAYLAND_FD' = p.WAYLAND_FD
                /\ OBJECT_MANAGER' = p.OBJECT_MANAGER
                /\ PIXEL_FORMAT' = p.PIXEL_FORMAT
                /\ INITIALIZED' = p.INITIALIZED
    /\ pc' = "get_registry"
    /\ UNCHANGED <<FRACTIONAL_SCALE_SUPPORT, sent, panic_msg>>
    /\ UNCHANGED <<registry, ipc>>

\* init called while not INITIALIZED, connect() panics (line 101)
InitConnectFails ==
    /\ pc \in {"idle", "returned"}
    /\ calls < MaxCalls
    /\ ~AlreadyInitialized
    /\ calls' = calls + 1
    /\ Die("connect", "")
    /\ UNCHANGED <<statics, sent, events, stray_sender>>
    /\ UNCHANGED <<registry, ipc>>

\* line 110
SendGetRegistry ==
    /\ pc = "get_registry"
    /\ sent' = Append(sent, GetRegistryReq)
    /\ pc' = "sync1"
    /\ UNCHANGED <<calls, statics, initializer, locals, panic_msg, history, events,
                   stray_sender>>
    /\ UNCHANGED <<registry, ipc>>

\* line 111
SendSync1 ==
    /\ pc = "sync1"
    /\ sent' = Append(sent, SyncReq(3))
    /\ pc' = "discovery"
    /\ UNCHANGED <<calls, statics, initializer, locals, panic_msg, history, events,
                   stray_sender>>
    /\ UNCHANGED <<registry, ipc>>

(* ---------------- dispatch of a received message ---------------- *)
\* mutant: every other sender is handed to the registry decoder
RouteDiscoveryRegistryElse(sender) ==
    IF sender = 3 THEN "wl_callback"
    ELSE IF sender = WL_DISPLAY THEN "wl_display"
    ELSE "wl_registry"

\* mutant: the discovery loop dispatches the shared-memory provider too
RouteDiscoveryWithShm(sender) ==
    IF sender = 3 THEN "wl_callback"
    ELSE IF sender = WL_DISPLAY THEN "wl_display"
    ELSE IF sender = WL_REGISTRY THEN "wl_registry"
    ELSE IF sender = WL_SHM THEN "wl_shm"
    ELSE "panic"

\* lines 117-125: the decoder a message of the discovery loop is handed to
RouteDiscovery(sender) ==
    IF sender = 3 THEN "wl_callback"
    ELSE IF sender = WL_DISPLAY THEN "wl_display"
    ELSE IF sender = WL_REGISTRY THEN "wl_registry"
    ELSE "panic"

\* mutant: every other sender is handed to the shared-memory decoder
RouteConfirmationShmElse(sender, cb) ==
    CASE sender = WL_DISPLAY  -> "wl_display"
      [] sender = WL_REGISTRY -> "wl_registry"
      [] sender = WL_SHM      -> "wl_shm"
      [] OTHER                -> IF sender = cb THEN "wl_callback" ELSE "wl_shm"

\* lines 160-172: the decoder a message of the confirmation loop is handed to
RouteConfirmation(sender, cb) ==
    CASE sender = WL_DISPLAY  -> "wl_display"
      [] sender = WL_REGISTRY -> "wl_registry"
      [] sender = WL_SHM      -> "wl_shm"
      [] OTHER                -> IF sender = cb THEN "wl_callback" ELSE "error"

Receiving == pc \in {"discovery", "confirmation"}

Route(sender) ==
    IF pc = "discovery" THEN RouteDiscovery(sender) ELSE RouteConfirmation(sender, callback_id)

\* the senders each loop dispatches (lines 117-121 and 160-166)
StraySender(sender) ==
    IF pc = "discovery" THEN sender \notin {1, 2, 3}
    ELSE sender \notin {1, 2, 4, callback_id}

\* a message of this sender is taken from WireMsg::recv() (lines 116, 159)
Received(sender) == stray_sender' = IF StraySender(sender) THEN sender ELSE 0

\* the position after the receive loop that is running has ended
AfterLoop == IF pc = "discovery" THEN "discovered" ELSE "returned"

(* ---------------- the receive loops ---------------- *)
\* Initializer::delete_id, and the loop test that follows it (lines 115, 158)
HandleDeleteId(id) ==
    /\ deleted_id' = id
    /\ IF DeleteIdExits(fractional_scale, id)
       THEN /\ should_exit' = TRUE
            /\ pc' = AfterLoop
            /\ UNCHANGED <<panic_msg, global_names, output_names, fractional_scale,
                           forced_shm_format, locals, history>>
       ELSE Die("delete_id", "")

\* wl_display "delete_id" event -> Initializer::delete_id
RecvDeleteId ==
    /\ Receiving
    /\ \E sender \in ObjectIds : Route(sender) = "wl_display" /\ Received(sender)
    /\ \E id \in ObjectIds : HandleDeleteId(id)
    /\ UNCHANGED <<calls, statics, sent, below_floor, format_events>>
    /\ UNCHANGED <<registry, ipc>>

\* the version floors of the mandatory interfaces (table of lines 24-30)
BelowFloor(interface, version) ==
    \/ interface = "wl_compositor" /\ version < 4
    \/ interface = "wl_shm" /\ version < 1
    \/ interface = "wp_viewporter" /\ version < 1
    \/ interface = "zwlr_layer_shell_v1" /\ version < 3

\* mutant: the floor of the last table entry is not enforced
GlobalPanicsFirstThree(interface, version) ==
    LET i == RequiredIndex(interface) IN
    /\ interface \notin {FRACTIONAL_SCALE_INTERFACE, WL_OUTPUT_INTERFACE}
    /\ i \in 1..3
    /\ version < VERSIONS[i]

\* Initializer::global panics (line 311)
GlobalPanics(interface, version) ==
    LET i == RequiredIndex(interface) IN
    /\ interface \notin {FRACTIONAL_SCALE_INTERFACE, WL_OUTPUT_INTERFACE}
    /\ i # 0
    /\ version < VERSIONS[i]

\* mutant: an output of version 4 is skipped too
GlobalSkipsVersion4(init, name, interface, version) ==
    CASE interface = FRACTIONAL_SCALE_INTERFACE ->
            [init EXCEPT !.fractional_scale = <<7, name>>]
      [] interface = WL_OUTPUT_INTERFACE ->
            IF version <= 4 THEN init
            ELSE [init EXCEPT !.output_names = Append(@, name)]
      [] OTHER ->
            LET i == RequiredIndex(interface) IN
            IF i = 0 THEN init
            ELSE [init EXCEPT !.global_names[i] = name]

\* Initializer::global: the Initializer after an event that does not panic
Global(init, name, interface, version) ==
    CASE interface = FRACTIONAL_SCALE_INTERFACE ->
            [init EXCEPT !.fractional_scale = <<7, name>>]
      [] interface = WL_OUTPUT_INTERFACE ->
            IF version < 4 THEN init
            ELSE [init EXCEPT !.output_names = Append(@, name)]
      [] OTHER ->
            LET i == RequiredIndex(interface) IN
            IF i = 0 THEN init
            ELSE [init EXCEPT !.global_names[i] = name]

\* the Initializer as a record
Initializer ==
    [global_names |-> global_names,
     output_names |-> output_names,
     fractional_scale |-> fractional_scale,
     forced_shm_format |-> forced_shm_format,
     should_exit |-> should_exit]

\* Initializer::global on one event
HandleGlobal(name, interface, version) ==
    /\ below_floor' = IF BelowFloor(interface, version) THEN interface ELSE ""
    /\ IF GlobalPanics(interface, version)
       THEN Die("version", interface)
       ELSE /\ SetInitializer(Global(Initializer, name, interface, version))
            /\ n_globals' = n_globals + 1
            /\ announced_outputs' =
                  IF interface = WL_OUTPUT_INTERFACE
                  THEN Append(announced_outputs, [name |-> name, version |-> version])
                  ELSE announced_outputs
            /\ UNCHANGED <<pc, panic_msg, locals>>

\* wl_registry "global" event -> Initializer::global
RecvGlobal ==
    /\ Receiving
    /\ n_globals < MaxGlobals
    /\ \E sender \in ObjectIds : Route(sender) = "wl_registry" /\ Received(sender)
    /\ \E name \in Names, interface \in Interfaces :
       \E version \in VersionsOf(interface) :
          /\ interface = WL_OUTPUT_INTERFACE => Len(announced_outputs) < MaxOutputs
          /\ HandleGlobal(name, interface, version)
    /\ UNCHANGED <<calls, statics, sent, deleted_id, format_events>>
    /\ UNCHANGED <<registry, ipc>>

\* wl_registry "global_remove" event -> Initializer::global_remove
RecvGlobalRemove ==
    /\ Receiving
    /\ \E sender \in ObjectIds : Route(sender) = "wl_registry" /\ Received(sender)
    /\ Die("global_remove", "")
    /\ UNCHANGED <<calls, statics, sent, events>>
    /\ UNCHANGED <<registry, ipc>>

\* wl_callback "done" event -> Initializer::done, which only logs
RecvDone ==
    /\ Receiving
    /\ \E sender \in ObjectIds : Route(sender) = "wl_callback" /\ Received(sender)
    /\ UNCHANGED <<pc, calls, statics, initializer, locals, sent, panic_msg, history, events>>
    /\ UNCHANGED <<registry, ipc>>

\* the effect of Initializer::format on the program's state
FormatEvent(format) ==
    /\ PIXEL_FORMAT' = Format(forced_shm_format, PIXEL_FORMAT, format)
    /\ UNCHANGED <<pc, calls, WAYLAND_FD, FRACTIONAL_SCALE_SUPPORT, OBJECT_MANAGER,
                   INITIALIZED, initializer, locals, sent, panic_msg, history,
                   below_floor, deleted_id>>

\* wl_shm "format" event -> Initializer::format
RecvFormat ==
    /\ Receiving
    /\ \E sender \in ObjectIds : Route(sender) = "wl_shm" /\ Received(sender)
    /\ \E format \in FormatCodes : FormatEvent(format)
    /\ UNCHANGED format_events
    /\ UNCHANGED <<registry, ipc>>

\* line 124: any other sender ends the discovery loop with a panic
RecvUnexpectedDiscovery ==
    /\ pc = "discovery"
    /\ \E sender \in ObjectIds : Route(sender) = "panic" /\ Received(sender)
    /\ Die("unexpected_sender", "")
    /\ UNCHANGED <<calls, statics, sent, events>>
    /\ UNCHANGED <<registry, ipc>>

\* line 169: any other sender of the confirmation loop is logged
RecvUnexpectedConfirmation ==
    /\ pc = "confirmation"
    /\ \E sender \in ObjectIds : Route(sender) = "error" /\ Received(sender)
    /\ UNCHANGED <<pc, calls, statics, initializer, locals, sent, panic_msg, history, events>>
    /\ UNCHANGED <<registry, ipc>>

(* ---------------- init, between the two loops ---------------- *)
\* lines 128-135
Validate ==
    /\ pc = "discovered"
    /\ LET missing == FirstMissing(global_names) IN
          IF missing # None
          THEN Die("missing", missing)
          ELSE /\ pc' = "bind"
               /\ bind_i' = 1
               /\ UNCHANGED <<panic_msg, initializer, pixel_format_arg, callback_id, history>>
    /\ deleted_id' = 0
    /\ UNCHANGED <<calls, statics, sent, below_floor, format_events, stray_sender>>
    /\ UNCHANGED <<registry, ipc>>

\* mutant: every bind carries the name of the first slot
MandatoryBindFirstName(names, i) == BindReq(names[1], IDS[i], REQUIRED_GLOBALS[i], VERSIONS[i])

\* the request line 141 sends at step i of the loop
MandatoryBind(names, i) == BindReq(names[i], IDS[i], REQUIRED_GLOBALS[i], VERSIONS[i])

\* lines 137-142, one iteration
BindGlobal ==
    /\ pc = "bind"
    /\ sent' = Append(sent, MandatoryBind(global_names, bind_i))
    /\ IF bind_i < 4
       THEN /\ bind_i' = bind_i + 1
            /\ UNCHANGED pc
       ELSE /\ pc' = "bind_fractional_scale"
            /\ UNCHANGED bind_i
    /\ UNCHANGED <<calls, statics, pixel_format_arg, initializer, callback_id, panic_msg,
                   history, events, stray_sender>>
    /\ UNCHANGED <<registry, ipc>>

\* lines 144-153
BindFractionalScale ==
    /\ pc = "bind_fractional_scale"
    /\ IF fractional_scale # NoFractionalScale
       THEN /\ FRACTIONAL_SCALE_SUPPORT' = TRUE
            /\ sent' = Append(sent, BindReq(fractional_scale[2], fractional_scale[1],
                                            FRACTIONAL_SCALE_INTERFACE, 1))
       ELSE UNCHANGED <<FRACTIONAL_SCALE_SUPPORT, sent>>
    /\ pc' = "sync2"
    /\ UNCHANGED <<calls, WAYLAND_FD, OBJECT_MANAGER, PIXEL_FORMAT, INITIALIZED,
                   initializer, locals, panic_msg, history, events, stray_sender>>
    /\ UNCHANGED <<registry, ipc>>

\* lines 155-157
SendSync2 ==
    /\ pc = "sync2"
    /\ callback_id' = CallbackId(fractional_scale)
    /\ sent' = Append(sent, SyncReq(callback_id'))
    /\ should_exit' = FALSE
    /\ pc' = "confirmation"
    /\ UNCHANGED <<calls, statics, pixel_format_arg, global_names, output_names,
                   fractional_scale, forced_shm_format, bind_i, panic_msg, history, events,
                   stray_sender>>
    /\ UNCHANGED <<registry, ipc>>

\* a request or a receive returns Err and its unwrap panics
TransportFails ==
    /\ pc \in {"get_registry", "sync1", "discovery", "bind", "bind_fractional_scale",
               "sync2", "confirmation"}
    /\ pc = "bind_fractional_scale" => fractional_scale # NoFractionalScale
    /\ FRACTIONAL_SCALE_SUPPORT' = IF pc = "bind_fractional_scale" THEN TRUE
                                   ELSE FRACTIONAL_SCALE_SUPPORT
    /\ Die("transport", "")
    /\ stray_sender' = 0
    /\ UNCHANGED <<calls, WAYLAND_FD, OBJECT_MANAGER, PIXEL_FORMAT, INITIALIZED, sent,
                   events>>
    /\ UNCHANGED <<registry, ipc>>

Next ==
    \/ InitFirst
    \/ InitAgain
    \/ InitConnectFails
    \/ SendGetRegistry
    \/ SendSync1
    \/ RecvDeleteId
    \/ RecvGlobal
    \/ RecvGlobalRemove
    \/ RecvDone
    \/ RecvFormat
    \/ RecvUnexpectedDiscovery
    \/ RecvUnexpectedConfirmation
    \/ Validate
    \/ BindGlobal
    \/ BindFractionalScale
    \/ SendSync2
    \/ TransportFails

Spec == Init /\ [][Next]_vars

(* ---------------- the format handler on recorded event sequences ---------------- *)
\* the confirmation loop right after SendSync2, for init(format) and a compositor that
\* announced the four mandatory globals under the name 1 and then deleted callback 3
InitFormat ==
    /\ RegistryNew
    /\ ReadSocketIdle
    /\ pc = "confirmation"
    /\ calls = 1
    /\ WAYLAND_FD = "connected"
    /\ FRACTIONAL_SCALE_SUPPORT = FALSE
    /\ OBJECT_MANAGER = "new"
    /\ INITIALIZED = TRUE
    /\ \E format \in PixelFormat \cup {None} :
          /\ pixel_format_arg = format
          /\ PIXEL_FORMAT = IF format # None THEN format ELSE "Xrgb"
          /\ forced_shm_format = (format # None)
    /\ global_names = <<1, 1, 1, 1>>
    /\ output_names = <<>>
    /\ fractional_scale = NoFractionalScale
    /\ should_exit = FALSE
    /\ bind_i = 4
    /\ callback_id = 7
    /\ sent = <<GetRegistryReq, SyncReq(3),
                BindReq(1, 3, "wl_compositor", 4), BindReq(1, 4, "wl_shm", 1),
                BindReq(1, 5, "wp_viewporter", 1), BindReq(1, 6, "zwlr_layer_shell_v1", 3),
                SyncReq(7)>>
    /\ panic_msg = NoPanic
    /\ announced_outputs = <<>>
    /\ n_globals = 4
    /\ below_floor = ""
    /\ deleted_id = 0
    /\ format_events = <<>>
    /\ stray_sender = 0

\* RecvFormat, with the event recorded
RecvFormatRecorded ==
    /\ Receiving
    /\ Len(format_events) < MaxFormatEvents
    /\ \E sender \in ObjectIds : Route(sender) = "wl_shm" /\ Received(sender)
    /\ \E format \in FormatCodes :
          /\ FormatEvent(format)
          /\ format_events' = Append(format_events, format)
    /\ UNCHANGED <<registry, ipc>>

NextFormat == RecvFormatRecorded

SpecFormat == InitFormat /\ [][NextFormat]_vars

\* ---- one call of init against a compositor that follows the protocol ----

\* the mandatory interfaces the compositor has not announced yet
Missing == {i \in 1..4 : global_names[i] = 0}

\* the compositor announces a mandatory global, once, at its floor or above, in
\* answer to get_registry
PeerAnnouncesMandatory ==
    /\ pc = "discovery"
    /\ Received(WL_REGISTRY)
    /\ \E i \in Missing, name \in Names :
       \E version \in VersionsOf(REQUIRED_GLOBALS[i]) :
          /\ ~BelowFloor(REQUIRED_GLOBALS[i], version)
          /\ HandleGlobal(name, REQUIRED_GLOBALS[i], version)
    /\ UNCHANGED <<calls, statics, sent, deleted_id, format_events>>
    /\ UNCHANGED <<registry, ipc>>

\* the compositor announces another global (the fractional scale manager once, an
\* output, an interface init does not know) whenever it appears
PeerAnnouncesOther ==
    /\ Receiving
    /\ n_globals + Cardinality(Missing) < MaxGlobals
    /\ Received(WL_REGISTRY)
    /\ \E name \in Names, interface \in Interfaces :
       \E version \in VersionsOf(interface) :
          /\ RequiredIndex(interface) = 0
          /\ interface = FRACTIONAL_SCALE_INTERFACE => fractional_scale = NoFractionalScale
          /\ interface = WL_OUTPUT_INTERFACE => Len(announced_outputs) < MaxOutputs
          /\ HandleGlobal(name, interface, version)
    /\ UNCHANGED <<calls, statics, sent, deleted_id, format_events>>
    /\ UNCHANGED <<registry, ipc>>

\* the compositor answers sync(3) after the globals: it deletes callback 3
PeerDeletesFirstCallback ==
    /\ pc = "discovery"
    /\ Missing = {}
    /\ Received(WL_DISPLAY)
    /\ HandleDeleteId(3)
    /\ UNCHANGED <<calls, statics, sent, below_floor, format_events>>
    /\ UNCHANGED <<registry, ipc>>

\* the compositor answers the second sync: it deletes the callback init created
PeerDeletesSecondCallback ==
    /\ pc = "confirmation"
    /\ Received(WL_DISPLAY)
    /\ HandleDeleteId(callback_id)
    /\ UNCHANGED <<calls, statics, sent, below_floor, format_events>>
    /\ UNCHANGED <<registry, ipc>>

\* the steps init takes on its own
InitStep ==
    \/ InitFirst
    \/ SendGetRegistry
    \/ SendSync1
    \/ Validate
    \/ BindGlobal
    \/ BindFractionalScale
    \/ SendSync2

NextCompliant ==
    \/ InitFirst
    \/ SendGetRegistry
    \/ SendSync1
    \/ PeerAnnouncesMandatory
    \/ PeerAnnouncesOther
    \/ PeerDeletesFirstCallback
    \/ Validate
    \/ BindGlobal
    \/ BindFractionalScale
    \/ SendSync2
    \/ RecvDone
    \/ RecvFormat
    \/ RecvUnexpectedConfirmation
    \/ PeerDeletesSecondCallback

\* init runs when it can; every message the compositor owes is sent and received
SpecCompliant ==
    /\ Init
    /\ [][NextCompliant]_vars
    /\ WF_vars(InitStep)
    /\ WF_vars(PeerAnnouncesMandatory)
    /\ WF_vars(PeerDeletesFirstCallback)
    /\ WF_vars(PeerDeletesSecondCallback)

\* ---- read_socket on a stream whose reads succeed, would block or fail ----

\* ipc.rs lines 296-300
ReadSocketCall ==
    /\ rs_pc = "idle"
    /\ rs_pc' = "header"
    /\ tries' = 0
    /\ UNCHANGED <<len, buf, result, reads, last_err, bootstrap, registry>>

\* ipc.rs lines 302-303: read_exact of the header returns Ok, the loop is left and the
\* length is decoded (lines 314-316)
HeaderOk ==
    /\ rs_pc = "header"
    /\ reads' = reads + 1
    /\ last_err' = ""
    /\ \E n \in 0..MaxLen : len' = n
    /\ rs_pc' = "payload"
    /\ UNCHANGED <<tries, buf, result, bootstrap, registry>>

\* ipc.rs lines 302-312: read_exact of the header returns Err(e)
HeaderErr ==
    /\ rs_pc = "header"
    /\ reads' = reads + 1
    /\ \E kind \in {"WouldBlock", "Other"} :
          /\ last_err' = kind
          /\ IF MayRetry(kind, tries)
             THEN /\ tries' = tries + 1
                  /\ UNCHANGED <<rs_pc, result>>
             ELSE /\ rs_pc' = "returned"
                  /\ result' = "err_length"
                  /\ UNCHANGED tries
    /\ UNCHANGED <<len, buf, bootstrap, registry>>

\* ipc.rs lines 318-321: read_exact of the payload returns Ok, buf holds len bytes
PayloadOk ==
    /\ rs_pc = "payload"
    /\ \E bytes \in [1..len -> Bytes] : buf' = bytes
    /\ rs_pc' = "returned"
    /\ result' = "ok"
    /\ UNCHANGED <<tries, len, reads, last_err, bootstrap, registry>>

\* ipc.rs lines 318-320: read_exact of the payload returns Err
PayloadErr ==
    /\ rs_pc = "payload"
    /\ rs_pc' = "returned"
    /\ result' = "err_request"
    /\ UNCHANGED <<tries, len, buf, reads, last_err, bootstrap, registry>>

NextReadSocket ==
    \/ ReadSocketCall
    \/ HeaderOk
    \/ HeaderErr
    \/ PayloadOk
    \/ PayloadErr

SpecReadSocket == Init /\ [][NextReadSocket]_vars

\* ---- the registry operations called by the threads of the daemon after init ----

\* the state init returned in, for init(None) and a compositor that announced the four
\* mandatory globals under the name 1, deleted callback 3 and then callback 7
InitRegistry ==
    /\ RegistryNew
    /\ ReadSocketIdle
    /\ pc = "returned"
    /\ calls = 1
    /\ WAYLAND_FD = "connected"
    /\ FRACTIONAL_SCALE_SUPPORT = FALSE
    /\ OBJECT_MANAGER = "new"
    /\ PIXEL_FORMAT = "Xrgb"
    /\ INITIALIZED = TRUE
    /\ pixel_format_arg = None
    /\ forced_shm_format = FALSE
    /\ global_names = <<1, 1, 1, 1>>
    /\ output_names = <<>>
    /\ fractional_scale = NoFractionalScale
    /\ should_exit = TRUE
    /\ bind_i = 4
    /\ callback_id = 7
    /\ sent = <<GetRegistryReq, SyncReq(3),
                BindReq(1, 3, "wl_compositor", 4), BindReq(1, 4, "wl_shm", 1),
                BindReq(1, 5, "wp_viewporter", 1), BindReq(1, 6, "zwlr_layer_shell_v1", 3),
                SyncReq(7)>>
    /\ panic_msg = NoPanic
    /\ announced_outputs = <<>>
    /\ n_globals = 4
    /\ below_floor = ""
    /\ deleted_id = 7
    /\ format_events = <<>>
    /\ stray_sender = 0

\* lines 53-55, 62-64, 70-72: the debug assertion, then lock().unwrap() on a sound mutex
Lock(t) ==
    /\ INITIALIZED
    /\ tpc[t] = "ready"
    /\ ~poisoned
    /\ CanLock
    /\ guards' = guards \cup {t}

\* the guard is dropped at the end of the statement
Unlock(t) == guards' = guards \ {t}

\* a panic inside the ObjectManager unwinds through the guard and poisons the mutex
PanicLocked(t) ==
    /\ tpc' = [tpc EXCEPT ![t] = "panicked"]
    /\ poisoned' = TRUE
    /\ Unlock(t)
    /\ UNCHANGED <<objects, targ, tid, tret, live, removed>>

\* object_create: the lock is taken and create picks its id
ObjectCreateLock ==
    \E t \in Threads, type \in WlDynObj :
        /\ Lock(t)
        /\ \E id \in DynamicIds : objects[id] = Free
        /\ tpc' = [tpc EXCEPT ![t] = "create"]
        /\ targ' = [targ EXCEPT ![t] = type]
        /\ tid' = [tid EXCEPT ![t] = ObjectManagerNextId(objects)]
        /\ UNCHANGED <<objects, poisoned, tret, live, removed, bootstrap, ipc>>

\* object_create: create binds the id, the guard is dropped, the id is returned
ObjectCreateReturn ==
    \E t \in Threads :
        /\ tpc[t] = "create"
        /\ objects' = ObjectManagerCreate(objects, tid[t], targ[t])
        /\ live' = [live EXCEPT ![tid[t]] = targ[t]]
        /\ Unlock(t)
        /\ tpc' = [tpc EXCEPT ![t] = "ready"]
        /\ targ' = [targ EXCEPT ![t] = 0]
        /\ UNCHANGED <<poisoned, tid, tret, removed, bootstrap, ipc>>

\* object_type_get: the lock is taken and get looks the id up
ObjectTypeGetLock ==
    \E t \in Threads, id \in DynamicIds :
        /\ Lock(t)
        /\ tpc' = [tpc EXCEPT ![t] = "get"]
        /\ targ' = [targ EXCEPT ![t] = id]
        /\ tret' = [tret EXCEPT ![t] = ObjectManagerGet(objects, id)]
        /\ UNCHANGED <<objects, poisoned, tid, live, removed, bootstrap, ipc>>

\* object_type_get: the type is returned, or the failed lookup panics
ObjectTypeGetReturn ==
    \E t \in Threads :
        /\ tpc[t] = "get"
        /\ IF tret[t] = Free
              THEN PanicLocked(t)
              ELSE /\ Unlock(t)
                   /\ tpc' = [tpc EXCEPT ![t] = "ready"]
                   /\ targ' = [targ EXCEPT ![t] = 0]
                   /\ UNCHANGED <<objects, poisoned, tid, tret, live, removed>>
        /\ UNCHANGED <<bootstrap, ipc>>

\* object_remove: the lock is taken and remove looks the id up
ObjectRemoveLock ==
    \E t \in Threads, id \in DynamicIds :
        /\ Lock(t)
        /\ tpc' = [tpc EXCEPT ![t] = "remove"]
        /\ targ' = [targ EXCEPT ![t] = id]
        /\ tret' = [tret EXCEPT ![t] = ObjectManagerGet(objects, id)]
        /\ UNCHANGED <<objects, poisoned, tid, live, removed, bootstrap, ipc>>

\* object_remove: the id is unbound, or the failed lookup panics
ObjectRemoveReturn ==
    \E t \in Threads :
        /\ tpc[t] = "remove"
        /\ IF tret[t] = Free
              THEN PanicLocked(t)
              ELSE /\ objects' = ObjectManagerRemove(objects, targ[t])
                   /\ live' = [live EXCEPT ![targ[t]] = Free]
                   /\ removed' = removed \cup {targ[t]}
                   /\ Unlock(t)
                   /\ tpc' = [tpc EXCEPT ![t] = "ready"]
                   /\ targ' = [targ EXCEPT ![t] = 0]
                   /\ tret' = [tret EXCEPT ![t] = ""]
                   /\ UNCHANGED <<poisoned, tid>>
        /\ UNCHANGED <<bootstrap, ipc>>

\* lock().unwrap() on the poisoned mutex panics in the calling thread
LockPoisoned ==
    \E t \in Threads :
        /\ INITIALIZED
        /\ tpc[t] = "ready"
        /\ poisoned
        /\ CanLock
        /\ tpc' = [tpc EXCEPT ![t] = "panicked"]
        /\ UNCHANGED <<objects, guards, poisoned, targ, tid, tret, live, removed, bootstrap, ipc>>

NextRegistry ==
    \/ ObjectCreateLock
    \/ ObjectCreateReturn
    \/ ObjectTypeGetLock
    \/ ObjectTypeGetReturn
    \/ ObjectRemoveLock
    \/ ObjectRemoveReturn
    \/ LockPoisoned

SpecRegistry == InitRegistry /\ [][NextRegistry]_vars

TypeOK ==
    /\ pc \in {"idle", "get_registry", "sync1", "discovery", "discovered", "bind",
               "bind_fractional_scale", "sync2", "confirmation", "returned", "panicked"}
    /\ PIXEL_FORMAT \in PixelFormat
    /\ \A i \in 1..4 : global_names[i] \in Names \cup {0}

(* ======================= properties ======================= *)
\* the bind requests of the four mandatory interfaces, in the order they were sent
IsMandatoryBind(r) == r.req = "bind" /\ r.interface # FRACTIONAL_SCALE_INTERFACE
MandatoryBindsSent == SelectSeq(sent, IsMandatoryBind)
\* init has sent every mandatory bind
BindsDone == pc \in {"bind_fractional_scale", "sync2", "confirmation", "returned"}

\* C1: once discovery has ended with the four mandatory interfaces recorded, the bind
\* requests sent are exactly wl_compositor -> 3 (version 4), wl_shm -> 4 (version 1),
\* wp_viewporter -> 5 (version 1), zwlr_layer_shell_v1 -> 6 (version 3), each with the
\* name recorded for its interface, whatever the order of the announcements was.
C1_BindsFollowTable ==
    BindsDone =>
       /\ Len(MandatoryBindsSent) = 4
       /\ MandatoryBindsSent[1].id = 3 /\ MandatoryBindsSent[1].interface = "wl_compositor"
       /\ MandatoryBindsSent[1].version = 4
       /\ MandatoryBindsSent[2].id = 4 /\ MandatoryBindsSent[2].interface = "wl_shm"
       /\ MandatoryBindsSent[2].version = 1
       /\ MandatoryBindsSent[3].id = 5 /\ MandatoryBindsSent[3].interface = "wp_viewporter"
       /\ MandatoryBindsSent[3].version = 1
       /\ MandatoryBindsSent[4].id = 6 /\ MandatoryBindsSent[4].interface = "zwlr_layer_shell_v1"
       /\ MandatoryBindsSent[4].version = 3
       /\ \A i \in 1..4 : MandatoryBindsSent[i].name \in Names
       /\ pc \in {"bind_fractional_scale", "sync2"} =>
             \A i \in 1..4 : MandatoryBindsSent[i].name = global_names[i]

\* C1 witness: the binds were sent for names that differ between the interfaces
C1_Witness ==
    /\ pc = "sync2"
    /\ global_names = <<2, 1, 1, 2>>
    /\ Len(MandatoryBindsSent) = 4

\* C2: when discovery has ended with a mandatory name still 0, init panics naming the
\* first missing interface in table order, and nothing but the get_registry request
\* and the first sync was ever sent.
C2_MissingGlobalIsFatal ==
    [][ /\ (pc = "discovered" /\ (\E i \in 1..4 : global_names[i] = 0)) =>
             /\ pc' = "panicked"
             /\ panic_msg'.kind = "missing"
             /\ panic_msg'.interface =
                   IF global_names[1] = 0 THEN "wl_compositor"
                   ELSE IF global_names[2] = 0 THEN "wl_shm"
                   ELSE IF global_names[3] = 0 THEN "wp_viewporter"
                   ELSE "zwlr_layer_shell_v1"
        /\ panic_msg'.kind = "missing" => sent' = <<GetRegistryReq, SyncReq(3)>>
      ]_vars

\* C2 witness: the first two interfaces were found, the viewporter is the first missing
C2_Witness ==
    /\ pc = "panicked"
    /\ panic_msg = Panic("missing", "wp_viewporter")
    /\ sent = <<GetRegistryReq, SyncReq(3)>>

NoBindSent == \A k \in 1..Len(sent) : sent[k].req # "bind"

\* C3 as claimed: a mandatory interface announced below its floor panics at that event,
\* and no bind request has been sent before.
C3_Original ==
    below_floor # "" => pc = "panicked" /\ panic_msg.kind = "version" /\ NoBindSent

\* C3 amended: a mandatory interface announced below its floor panics at that event,
\* with a message naming the interface; when the event is received during discovery
\* no bind request has been sent before.
C3_BelowFloorIsFatal ==
    [][ below_floor' # "" =>
          /\ pc' = "panicked"
          /\ panic_msg' = Panic("version", below_floor')
          /\ sent' = sent
          /\ pc = "discovery" => NoBindSent'
      ]_vars

\* C3 witness: the layer shell announced below version 3 during discovery
C3_Witness ==
    /\ below_floor = "zwlr_layer_shell_v1"
    /\ pc = "panicked"
    /\ NoBindSent

\* C4: a "delete_id" event ends a receive loop only when it names the id awaited in
\* that phase: 3 in discovery, the phase-2 callback id in confirmation.
C4_OnlyAwaitedIdEndsLoop ==
    [][ (Receiving /\ deleted_id' # 0 /\ pc' # "panicked") =>
          deleted_id' = (IF pc = "discovery" THEN 3 ELSE callback_id)
      ]_vars

\* C5: in the confirmation phase a "delete_id" event naming the callback id sent in
\* the second sync request ends the loop in Ready.
C5_CallbackDeletionIsReady ==
    [][ (pc = "confirmation" /\ deleted_id' = callback_id) => pc' = "returned" ]_vars

\* the decision the ranking Bgr > Rgb > Xbgr > Xrgb gives for a set of seen codes
Best(seen) ==
    IF "BGR888" \in seen THEN "Bgr"
    ELSE IF "RGB888" \in seen THEN "Rgb"
    ELSE IF "XBGR8888" \in seen THEN "Xbgr"
    ELSE "Xrgb"

FormatsSeen == {format_events[k] : k \in 1..Len(format_events)}

\* C6: with no forced format the decision after a sequence of "format" events depends
\* only on which codes occurred in it: Bgr if BGR888 occurred, otherwise Rgb if RGB888
\* occurred, otherwise a padded layout.
C6_DecisionIgnoresOrder ==
    pixel_format_arg = None =>
       /\ PIXEL_FORMAT = Best(FormatsSeen)
       /\ "BGR888" \in FormatsSeen => PIXEL_FORMAT = "Bgr"
       /\ ("BGR888" \notin FormatsSeen /\ "RGB888" \in FormatsSeen) => PIXEL_FORMAT = "Rgb"
       /\ ("BGR888" \notin FormatsSeen /\ "RGB888" \notin FormatsSeen) =>
             PIXEL_FORMAT \in {"Xbgr", "Xrgb"}

\* C6 witness: the best layout arrived before the swapped-unpadded one
C6_Witness ==
    /\ pixel_format_arg = None
    /\ format_events = <<"XRGB8888", "BGR888", "RGB888">>
    /\ PIXEL_FORMAT = "Bgr"

\* C7: with a forced format the published format is the forced one after every
\* "format" event.
C7_ForcedFormatStays ==
    pixel_format_arg # None => PIXEL_FORMAT = pixel_format_arg

\* C7 witness: three events, the best layout among them, left a forced Xbgr alone
C7_Witness ==
    /\ pixel_format_arg = "Xbgr"
    /\ format_events = <<"RGB888", "BGR888", "XRGB8888">>
    /\ PIXEL_FORMAT = "Xbgr"

\* C8: a fractional-scale descriptor recorded in discovery is bound to id 7 and the
\* second sync then creates callback 8; without one no fractional-scale bind is sent
\* and the second sync creates callback 7.
C8_FractionalScaleNumbering ==
    [][ /\ (pc = "bind_fractional_scale" /\ pc' = "sync2") =>
             IF fractional_scale # NoFractionalScale
             THEN sent' = Append(sent, [req |-> "bind", name |-> fractional_scale[2], id |-> 7,
                                        interface |-> "wp_fractional_scale_manager_v1",
                                        version |-> 1])
             ELSE sent' = sent
        /\ (pc = "sync2" /\ pc' = "confirmation") =>
             /\ callback_id' = (IF fractional_scale # NoFractionalScale THEN 8 ELSE 7)
             /\ sent' = Append(sent, SyncReq(callback_id'))
      ]_vars

\* C8 witness: the manager announced under name 2 was bound to 7, the callback is 8
C8_Witness ==
    /\ pc = "confirmation"
    /\ callback_id = 8
    /\ Len(sent) = 8
    /\ sent[7] = BindReq(2, 7, FRACTIONAL_SCALE_INTERFACE, 1)
    /\ sent[8] = SyncReq(8)

\* the names of the announced outputs of version 4 or more, in announcement order
IsUsableOutput(g) == g.version >= 4
UsableOutputNames ==
    LET usable == SelectSeq(announced_outputs, IsUsableOutput) IN
    [k \in 1..Len(usable) |-> usable[k].name]

\* C9: output_names holds exactly the names of the wl_output globals announced with
\* version >= 4, in announcement order; an output announced below version 4 changes
\* nothing in the statics, the Initializer, the locals or the requests sent, and init
\* goes on.
C9_OutputsOfVersion4 ==
    [][ /\ output_names' = UsableOutputNames'
        /\ (/\ Len(announced_outputs') = Len(announced_outputs) + 1
            /\ announced_outputs'[Len(announced_outputs')].version < 4) =>
               UNCHANGED <<pc, panic_msg, statics, initializer, locals, sent>>
      ]_vars

\* C9 witness: init returned after an output of version 3 and one of version 4
C9_Witness ==
    /\ pc = "returned"
    /\ announced_outputs = <<[name |-> 1, version |-> 3], [name |-> 2, version |-> 4]>>
    /\ output_names = <<2>>

C11_StraySenderIsFatal ==
    [][ (pc = "discovery" /\ stray_sender' # 0) =>
          /\ pc' = "panicked"
          /\ panic_msg' = Panic("unexpected_sender", "")
          /\ sent' = sent
          /\ NoBindSent'
      ]_vars

\* C11 witness: a message of sender 5 ended discovery with the panic
C11_Witness ==
    /\ pc = "panicked"
    /\ stray_sender = 5
    /\ panic_msg.kind = "unexpected_sender"
    /\ sent = <<GetRegistryReq, SyncReq(3)>>

\* C12 as claimed: a message of the shared-memory provider received during discovery
\* is not a protocol violation, discovery goes on.
C12_Original ==
    [][ (pc = "discovery" /\ stray_sender' = WL_SHM) => pc' = "discovery" ]_vars

\* C12 amended: the discovery loop does not dispatch the shared-memory provider: a
\* message of sender 4 received during discovery panics as an unexpected sender and
\* the decision is never changed during discovery; a "format" event changes the
\* decision only in the confirmation loop, when no format was forced, and that loop
\* goes on.
C12_ShmInDiscoveryIsFatal ==
    [][ /\ (pc = "discovery" /\ stray_sender' = WL_SHM) =>
             /\ pc' = "panicked"
             /\ panic_msg' = Panic("unexpected_sender", "")
        /\ pc = "discovery" => PIXEL_FORMAT' = PIXEL_FORMAT
        /\ (pc # "idle" /\ PIXEL_FORMAT' # PIXEL_FORMAT) =>
             /\ pc = "confirmation" /\ pc' = "confirmation"
             /\ ~forced_shm_format
      ]_vars

\* C12 witness: a message of sender 4 ended discovery, the decision is the default
C12_Witness ==
    /\ pc = "panicked"
    /\ stray_sender = WL_SHM
    /\ panic_msg.kind = "unexpected_sender"
    /\ PIXEL_FORMAT = "Xrgb"

\* C13: in confirmation a message whose sender is not 1, 2, 4 or the phase-2 callback
\* id is not fatal: the loop goes on and no state of the negotiation changes.
C13_StraySenderIsIgnored ==
    [][ (pc = "confirmation" /\ stray_sender' # 0) =>
          UNCHANGED <<pc, panic_msg, global_names, output_names, fractional_scale,
                      forced_shm_format, should_exit, FRACTIONAL_SCALE_SUPPORT,
                      PIXEL_FORMAT, WAYLAND_FD, OBJECT_MANAGER, INITIALIZED, locals, sent>>
      ]_vars

\* C13 witness: the confirmation loop goes on after a message of the old callback 3
C13_Witness ==
    /\ pc = "confirmation"
    /\ stray_sender = 3
    /\ panic_msg = NoPanic

\* C14: a get of an id returns the type passed to the create that returned the id, as
\* long as no remove of the id has returned since; a get of an id that no create
\* returned, or whose remove returned and that no later create returned, panics; a
\* create may return an id whose remove has returned (C14_Witness).
C14_GetFollowsCreate ==
    [][ \A t \in Threads :
          (tpc[t] = "get" /\ tpc'[t] # "get") =>
              IF live[targ[t]] = Free
                THEN tpc'[t] = "panicked"
                ELSE tpc'[t] = "ready" /\ tret'[t] = live[targ[t]]
      ]_vars

\* C14 witness: thread 1 is inside get(9) and has read "Output": 9 was created, removed
\* and returned again by a create of an "Output"
C14_Witness ==
    /\ tpc[1] = "get"
    /\ targ[1] = ZWLR_LAYER_SHELL_V1 + 3
    /\ tret[1] = "Output"
    /\ (ZWLR_LAYER_SHELL_V1 + 3) \in removed

\* C15: at most one thread is inside the ObjectManager; a create never returns an id
\* that an earlier create returned and no remove has returned for since; an entry that
\* is bound changes only by becoming free.
C15_RegistryCallsAreAtomic ==
    [][ /\ Cardinality(guards') <= 1
        /\ \A t \in Threads :
              (tpc[t] = "create" /\ tpc'[t] = "ready") => live[tid[t]] = Free
        /\ \A id \in DynamicIds :
              (objects[id] # Free /\ objects'[id] # objects[id]) => objects'[id] = Free
      ]_vars

\* C15 witness: creates of two threads returned different ids, both still live, while
\* thread 2 is inside the next call
C15_Witness ==
    /\ tid[1] = ZWLR_LAYER_SHELL_V1 + 3
    /\ tid[2] = ZWLR_LAYER_SHELL_V1 + 4
    /\ tpc[1] = "ready"
    /\ tpc[2] = "get"
    /\ targ[2] = ZWLR_LAYER_SHELL_V1 + 4
    /\ tret[2] = "Buffer"
    /\ live[ZWLR_LAYER_SHELL_V1 + 3] = "Output"
    /\ guards = {2}

\* C16: only the first call of init connects and sends; a call of init made while
\* INITIALIZED is set returns at once: it sends nothing, enters no receive loop and
\* leaves the statics and the object registry as they are.
C16_SecondCallChangesNothing ==
    [][ /\ (INITIALIZED /\ calls' # calls) =>
             /\ pc' = "returned"
             /\ UNCHANGED <<statics, sent, registry>>
        /\ WAYLAND_FD' # WAYLAND_FD => calls = 0
        /\ sent' # sent => calls = 1
        /\ Receiving => calls = 1
      ]_vars

\* C16 witness: init(Bgr) was called after init had returned with Xrgb published
C16_Witness ==
    /\ calls = 2
    /\ pc = "returned"
    /\ pixel_format_arg = "Bgr"
    /\ PIXEL_FORMAT = "Xrgb"
    /\ Len(sent) = 7

\* the "format" event of this step
LastFormat == format_events'[Len(format_events')]

\* C17 as claimed: with no forced format an RGB888 event changes the decision only
\* when it is still Xrgb, an XBGR8888 event changes it to Xbgr unless it is Bgr, a
\* BGR888 event sets Bgr, and Bgr is never left.
C17_Original ==
    [][ (format_events' # format_events /\ ~forced_shm_format) =>
          /\ LastFormat = "RGB888" =>
                PIXEL_FORMAT' = IF PIXEL_FORMAT = "Xrgb" THEN "Rgb" ELSE PIXEL_FORMAT
          /\ LastFormat = "XBGR8888" =>
                PIXEL_FORMAT' = IF PIXEL_FORMAT # "Bgr" THEN "Xbgr" ELSE PIXEL_FORMAT
          /\ LastFormat = "BGR888" => PIXEL_FORMAT' = "Bgr"
          /\ PIXEL_FORMAT = "Bgr" => PIXEL_FORMAT' = "Bgr"
      ]_vars

\* C17 amended: with no forced format an XBGR8888 event changes the decision (to Xbgr)
\* only when it is still Xrgb, an RGB888 event changes it to Rgb unless it is Bgr, a
\* BGR888 event sets Bgr, and Bgr is never left.
C17_PerEventRule ==
    [][ (format_events' # format_events /\ ~forced_shm_format) =>
          /\ LastFormat = "XBGR8888" =>
                PIXEL_FORMAT' = IF PIXEL_FORMAT = "Xrgb" THEN "Xbgr" ELSE PIXEL_FORMAT
          /\ LastFormat = "RGB888" =>
                PIXEL_FORMAT' = IF PIXEL_FORMAT # "Bgr" THEN "Rgb" ELSE PIXEL_FORMAT
          /\ LastFormat = "BGR888" => PIXEL_FORMAT' = "Bgr"
          /\ PIXEL_FORMAT = "Bgr" => PIXEL_FORMAT' = "Bgr"
      ]_vars

\* C17 witness: an RGB888 event replaced Xbgr, then an XBGR8888 event left Rgb alone
C17_Witness ==
    /\ ~forced_shm_format
    /\ format_events = <<"XBGR8888", "RGB888", "XBGR8888">>
    /\ PIXEL_FORMAT = "Rgb"

\* the requests init sends, by position: get_registry, sync(3), the binds of 3, 4, 5
\* and 6, then either the bind of the fractional scale manager and sync(8), or sync(7)
InRequestOrder(s) ==
    \A p \in 1..Len(s) :
        CASE p = 1 -> s[p] = GetRegistryReq
          [] p = 2 -> s[p] = SyncReq(3)
          [] p \in 3..6 ->
                /\ s[p].req = "bind"
                /\ s[p].id = IDS[p - 2]
                /\ s[p].interface = REQUIRED_GLOBALS[p - 2]
          [] p = 7 ->
                \/ s[p].req = "bind" /\ s[p].id = 7
                                     /\ s[p].interface = FRACTIONAL_SCALE_INTERFACE
                \/ s[p] = SyncReq(7)
          [] p = 8 -> s[7].req = "bind" /\ s[p] = SyncReq(8)
          [] OTHER -> FALSE

\* the part of C18 that does not depend on which "delete_id" ended discovery
RequestOrderStep ==
    /\ sent' # sent => /\ ~Receiving
                       /\ Len(sent') = Len(sent) + 1
                       /\ SubSeq(sent', 1, Len(sent)) = sent
    /\ pc = "discovery" => sent = <<GetRegistryReq, SyncReq(3)>>
    /\ pc = "confirmation" => sent[Len(sent)] = SyncReq(callback_id)
    /\ (sent' # sent /\ sent'[Len(sent')].req = "bind") =>
          \A i \in 1..4 : global_names[i] # 0
    /\ InRequestOrder(sent')

\* C18: get_registry and sync(3) are sent before anything is received; no bind is sent
\* until the discovery loop has ended on "delete_id" of 3 with the four mandatory names
\* recorded; the binds go in table order, then the bind of the fractional scale manager,
\* then the second sync; nothing is sent while a receive loop runs.
C18_RequestOrder ==
    [][ /\ RequestOrderStep
        /\ (pc = "discovered" /\ pc' = "bind") => deleted_id = 3
      ]_vars

\* the ranking Bgr > Rgb > Xbgr > Xrgb
Rank(format) ==
    CASE format = "Bgr" -> 3
      [] format = "Rgb" -> 2
      [] format = "Xbgr" -> 1
      [] format = "Xrgb" -> 0

\* C20: a "format" event never moves the decision to a layout of lower rank, and an
\* event of a code other than XRGB8888, XBGR8888, RGB888 and BGR888 leaves it as it is.
C20_DecisionIsMonotone ==
    [][ format_events' # format_events =>
          /\ Rank(PIXEL_FORMAT') >= Rank(PIXEL_FORMAT)
          /\ LastFormat \notin {"XRGB8888", "XBGR8888", "RGB888", "BGR888"} =>
                PIXEL_FORMAT' = PIXEL_FORMAT
      ]_vars

\* C20 witness: the decision went up to Bgr and stayed there over RGB888 and ARGB8888
C20_Witness ==
    /\ ~forced_shm_format
    /\ format_events = <<"BGR888", "RGB888", "ARGB8888">>
    /\ PIXEL_FORMAT = "Bgr"

\* C19: against a compositor that announces the four mandatory globals at sufficient
\* versions, then deletes callback 3, and after the binds deletes the second callback,
\* with every message received, init eventually returns (Ready).
C19_CompliantPeerReachesReady == <>(pc = "returned")

\* a bind of the fractional scale manager to id 7 is among the requests sent
FractionalScaleBindSent ==
    \E p \in 1..Len(sent) :
        /\ sent[p].req = "bind"
        /\ sent[p].id = 7
        /\ sent[p].interface = FRACTIONAL_SCALE_INTERFACE

\* C21: when the first call of init has returned, FRACTIONAL_SCALE_SUPPORT is true
\* exactly when the Initializer handed back reports a fractional scale descriptor, and
\* then the bind of the fractional scale manager to id 7 was sent.
C21_FlagAgreesWithResult ==
    (pc = "returned" /\ calls = 1) =>
        /\ FRACTIONAL_SCALE_SUPPORT <=> (fractional_scale # NoFractionalScale)
        /\ fractional_scale # NoFractionalScale => FractionalScaleBindSent

\* C22: read_socket reads the header at most 6 times; a header read that fails with
\* anything but WouldBlock, or with the sixth WouldBlock, returns the length error at
\* once, an earlier WouldBlock is retried; the payload is read only after a header read
\* that returned Ok, and read_socket then returns exactly len bytes, or the request
\* error when the payload read fails.
C22_BoundedRetry ==
    [][ /\ reads' <= MaxTries + 1
        /\ (reads' # reads /\ last_err' = "Other") =>
              rs_pc' = "returned" /\ result' = "err_length"
        /\ (reads' # reads /\ last_err' = "WouldBlock") =>
              IF reads' = MaxTries + 1
              THEN rs_pc' = "returned" /\ result' = "err_length"
              ELSE rs_pc' = "header" /\ result' = "none"
        /\ (rs_pc # "payload" /\ rs_pc' = "payload") =>
              reads' = reads + 1 /\ last_err' = ""
        /\ rs_pc = "payload" =>
              \/ UNCHANGED <<rs_pc, result, buf>>
              \/ rs_pc' = "returned" /\ result' = "ok" /\ Len(buf') = len
              \/ rs_pc' = "returned" /\ result' = "err_request"
        /\ result' \in {"ok", "err_request"} => rs_pc = "payload" \/ result' = result
      ]_vars

\* C22 witness: the sixth header read would block and read_socket returned the error
C22_Witness ==
    /\ rs_pc = "returned"
    /\ result = "err_length"
    /\ reads = MaxTries + 1
    /\ last_err = "WouldBlock"

====
